---- MODULE Spec2Model ----
(***************************************************************************)
(* Model of the safety-classification engine of shellgpt                   *)
(* (src/core/safety_checker.py) and of the producers that hand it Command  *)
(* records (src/core/command_generator.py, src/core/nlp_engine.py).        *)
(*                                                                         *)
(* Python strings that the code inspects (commands, paths, flags, context  *)
(* values) are sequences of one-character strings, so that lower(), the    *)
(* `in` substring test and re.search are computed character by character.  *)
(* Warning texts are only appended and compared, so they are TLA+ strings. *)
(***************************************************************************)
EXTENDS Naturals, Integers, Sequences, FiniteSets, TLC

(* ------------------------------ bounds --------------------------------- *)

\* Largest number of spaces between two words of a generated command.
MaxSpaces == 2

\* Largest number of classification passes run on one record.
MaxPasses == 2

\* The largest count asked of generate_multiple_alternatives.
MaxCount == 4

(* ------------------------- characters and strings ---------------------- *)

UpperLetters ==
  <<"A","B","C","D","E","F","G","H","I","J","K","L","M",
    "N","O","P","Q","R","S","T","U","V","W","X","Y","Z">>

LowerLetters ==
  <<"a","b","c","d","e","f","g","h","i","j","k","l","m",
    "n","o","p","q","r","s","t","u","v","w","x","y","z">>

Digits == {"0","1","2","3","4","5","6","7","8","9"}

Range(seq) == { seq[i] : i \in 1..Len(seq) }

UpperSet == Range(UpperLetters)

LowerSet == Range(LowerLetters)

\* The lower-case letter of every upper-case letter.
LowerMap ==
  [c \in UpperSet |-> LowerLetters[CHOOSE i \in 1..26 : UpperLetters[i] = c]]

\* str.lower() on one ASCII character.
LowerChar(c) == IF c \in UpperSet THEN LowerMap[c] ELSE c

\* str.lower()
Lower(s) == [i \in 1..Len(s) |-> LowerChar(s[i])]

\* Python's `sub in s` for strings.
Contains(sub, s) ==
  \E i \in 0..(Len(s) - Len(sub)) :
    \A j \in 1..Len(sub) : s[i + j] = sub[j]

\* \w of the re module, on ASCII.
WordChars == LowerSet \cup UpperSet \cup Digits \cup {"_"}

IsWord(c) == c \in WordChars

\* \s of the re module and the characters str.strip() removes, on ASCII:
\* space, \t, \n, \x0b, \x0c, \r and \x1c to \x1f.
SpaceChars ==
  {" ", "\t", "\n", "", "\f", "\r", "", "", "", ""}

IsSpace(c) == c \in SpaceChars

(* ------------------------ regular expressions -------------------------- *)
\* The regex constructs that occur in the pattern tables.

Lit(c)   == [t |-> "lit", c |-> c]
WB       == [t |-> "wb", c |-> ""]
SpPlus   == [t |-> "sp+", c |-> ""]
SpStar   == [t |-> "sp*", c |-> ""]
DotStar  == [t |-> ".*", c |-> ""]
LowerAZ  == [t |-> "a-z", c |-> ""]

Lits(s) == [i \in 1..Len(s) |-> Lit(s[i])]

\* \b at the gap in front of position i (1-based) of s.
WordBoundary(s, i) ==
  LET before == i > 1 /\ i - 1 <= Len(s) /\ IsWord(s[i - 1])
      after  == i <= Len(s) /\ IsWord(s[i])
  IN  before # after

\* Can elements k.. of the regex match s starting at position i?
RECURSIVE MatchFrom(_, _, _, _)
MatchFrom(re, s, k, i) ==
  IF k > Len(re) THEN TRUE
  ELSE
    LET e == re[k] IN
    CASE e.t = "lit" ->
           i <= Len(s) /\ s[i] = e.c /\ MatchFrom(re, s, k + 1, i + 1)
      [] e.t = "wb" ->
           WordBoundary(s, i) /\ MatchFrom(re, s, k + 1, i)
      [] e.t = "sp+" ->
           \E j \in (i + 1)..(Len(s) + 1) :
             (\A m \in i..(j - 1) : IsSpace(s[m])) /\ MatchFrom(re, s, k + 1, j)
      [] e.t = "sp*" ->
           \E j \in i..(Len(s) + 1) :
             (\A m \in i..(j - 1) : IsSpace(s[m])) /\ MatchFrom(re, s, k + 1, j)
      [] e.t = ".*" ->
           \E j \in i..(Len(s) + 1) :
             (\A m \in i..(j - 1) : s[m] # "\n") /\ MatchFrom(re, s, k + 1, j)
      [] e.t = "a-z" ->
           i <= Len(s) /\ s[i] \in LowerSet /\ MatchFrom(re, s, k + 1, i + 1)
\* re.match in place of re.search: the pattern is tried at the start only.
re_search_AtStart(re, s) == MatchFrom(re, s, 1, 1)

\* re.search(pattern, s) is not None
re_search(re, s) == \E i \in 1..(Len(s) + 1) : MatchFrom(re, s, 1, i)

(* --------------------------- pattern library --------------------------- *)
\* SafetyChecker._load_dangerous_patterns: the dict flattened in iteration
\* order (categories in insertion order, patterns in list order).
dangerous_patterns ==
  <<
    [category |-> "destructive", pattern |-> "\\brm\\s+-rf\\s+/",
     re |-> <<WB>> \o Lits(<<"r","m">>) \o <<SpPlus>> \o Lits(<<"-","r","f">>) \o <<SpPlus>> \o Lits(<<"/">>)],
    [category |-> "destructive", pattern |-> "\\brm\\s+-rf\\s+\\*",
     re |-> <<WB>> \o Lits(<<"r","m">>) \o <<SpPlus>> \o Lits(<<"-","r","f">>) \o <<SpPlus>> \o Lits(<<"*">>)],
    [category |-> "destructive", pattern |-> "\\bdd\\s+if=.*of=/dev/",
     re |-> <<WB>> \o Lits(<<"d","d">>) \o <<SpPlus>> \o Lits(<<"i","f","=">>) \o <<DotStar>> \o Lits(<<"o","f","=","/","d","e","v","/">>)],
    [category |-> "destructive", pattern |-> "\\bmkfs\\.",
     re |-> <<WB>> \o Lits(<<"m","k","f","s",".">>)],
    [category |-> "destructive", pattern |-> "\\bformat\\s+",
     re |-> <<WB>> \o Lits(<<"f","o","r","m","a","t">>) \o <<SpPlus>>],
    [category |-> "destructive", pattern |-> ">\\s*/dev/sd[a-z]",
     re |-> Lits(<<">">>) \o <<SpStar>> \o Lits(<<"/","d","e","v","/","s","d">>) \o <<LowerAZ>>],
    [category |-> "destructive", pattern |-> "\\bshred\\s+",
     re |-> <<WB>> \o Lits(<<"s","h","r","e","d">>) \o <<SpPlus>>],
    [category |-> "destructive", pattern |-> "\\bwipe\\s+",
     re |-> <<WB>> \o Lits(<<"w","i","p","e">>) \o <<SpPlus>>],
    [category |-> "privilege_escalation", pattern |-> "\\bsudo\\s+rm\\s+-rf",
     re |-> <<WB>> \o Lits(<<"s","u","d","o">>) \o <<SpPlus>> \o Lits(<<"r","m">>) \o <<SpPlus>> \o Lits(<<"-","r","f">>)],
    [category |-> "privilege_escalation", pattern |-> "\\bsudo\\s+dd\\s+",
     re |-> <<WB>> \o Lits(<<"s","u","d","o">>) \o <<SpPlus>> \o Lits(<<"d","d">>) \o <<SpPlus>>],
    [category |-> "privilege_escalation", pattern |-> "\\bsudo\\s+chmod\\s+777",
     re |-> <<WB>> \o Lits(<<"s","u","d","o">>) \o <<SpPlus>> \o Lits(<<"c","h","m","o","d">>) \o <<SpPlus>> \o Lits(<<"7","7","7">>)],
    [category |-> "privilege_escalation", pattern |-> "\\bsu\\s+-\\s+",
     re |-> <<WB>> \o Lits(<<"s","u">>) \o <<SpPlus>> \o Lits(<<"-">>) \o <<SpPlus>>],
    [category |-> "privilege_escalation", pattern |-> "\\bsudo\\s+su\\s+",
     re |-> <<WB>> \o Lits(<<"s","u","d","o">>) \o <<SpPlus>> \o Lits(<<"s","u">>) \o <<SpPlus>>],
    [category |-> "network_dangerous", pattern |-> "\\bnc\\s+.*-e\\s+",
     re |-> <<WB>> \o Lits(<<"n","c">>) \o <<SpPlus>> \o <<DotStar>> \o Lits(<<"-","e">>) \o <<SpPlus>>],
    [category |-> "network_dangerous", pattern |-> "\\bnetcat\\s+.*-e\\s+",
     re |-> <<WB>> \o Lits(<<"n","e","t","c","a","t">>) \o <<SpPlus>> \o <<DotStar>> \o Lits(<<"-","e">>) \o <<SpPlus>>],
    [category |-> "network_dangerous", pattern |-> "\\bbash\\s+-i\\s+>&\\s+/dev/tcp/",
     re |-> <<WB>> \o Lits(<<"b","a","s","h">>) \o <<SpPlus>> \o Lits(<<"-","i">>) \o <<SpPlus>> \o Lits(<<">","&">>) \o <<SpPlus>> \o Lits(<<"/","d","e","v","/","t","c","p","/">>)],
    [category |-> "network_dangerous", pattern |-> "\\bwget\\s+.*\\|\\s*bash",
     re |-> <<WB>> \o Lits(<<"w","g","e","t">>) \o <<SpPlus>> \o <<DotStar>> \o Lits(<<"|">>) \o <<SpStar>> \o Lits(<<"b","a","s","h">>)],
    [category |-> "network_dangerous", pattern |-> "\\bcurl\\s+.*\\|\\s*bash",
     re |-> <<WB>> \o Lits(<<"c","u","r","l">>) \o <<SpPlus>> \o <<DotStar>> \o Lits(<<"|">>) \o <<SpStar>> \o Lits(<<"b","a","s","h">>)],
    [category |-> "network_dangerous", pattern |-> "\\bcurl\\s+.*\\|\\s*sh",
     re |-> <<WB>> \o Lits(<<"c","u","r","l">>) \o <<SpPlus>> \o <<DotStar>> \o Lits(<<"|">>) \o <<SpStar>> \o Lits(<<"s","h">>)],
    [category |-> "system_modification", pattern |-> "\\bchmod\\s+777\\s+/",
     re |-> <<WB>> \o Lits(<<"c","h","m","o","d">>) \o <<SpPlus>> \o Lits(<<"7","7","7">>) \o <<SpPlus>> \o Lits(<<"/">>)],
    [category |-> "system_modification", pattern |-> "\\bchown\\s+.*:/",
     re |-> <<WB>> \o Lits(<<"c","h","o","w","n">>) \o <<SpPlus>> \o <<DotStar>> \o Lits(<<":","/">>)],
    [category |-> "system_modification", pattern |-> ">\\s*/etc/",
     re |-> Lits(<<">">>) \o <<SpStar>> \o Lits(<<"/","e","t","c","/">>)],
    [category |-> "system_modification", pattern |-> "\\bmount\\s+",
     re |-> <<WB>> \o Lits(<<"m","o","u","n","t">>) \o <<SpPlus>>],
    [category |-> "system_modification", pattern |-> "\\bumount\\s+",
     re |-> <<WB>> \o Lits(<<"u","m","o","u","n","t">>) \o <<SpPlus>>],
    [category |-> "system_modification", pattern |-> "\\bfdisk\\s+",
     re |-> <<WB>> \o Lits(<<"f","d","i","s","k">>) \o <<SpPlus>>],
    [category |-> "system_modification", pattern |-> "\\bparted\\s+",
     re |-> <<WB>> \o Lits(<<"p","a","r","t","e","d">>) \o <<SpPlus>>],
    [category |-> "credential_exposure", pattern |-> "\\becho\\s+.*password",
     re |-> <<WB>> \o Lits(<<"e","c","h","o">>) \o <<SpPlus>> \o <<DotStar>> \o Lits(<<"p","a","s","s","w","o","r","d">>)],
    [category |-> "credential_exposure", pattern |-> "\\becho\\s+.*token",
     re |-> <<WB>> \o Lits(<<"e","c","h","o">>) \o <<SpPlus>> \o <<DotStar>> \o Lits(<<"t","o","k","e","n">>)],
    [category |-> "credential_exposure", pattern |-> "\\becho\\s+.*secret",
     re |-> <<WB>> \o Lits(<<"e","c","h","o">>) \o <<SpPlus>> \o <<DotStar>> \o Lits(<<"s","e","c","r","e","t">>)],
    [category |-> "credential_exposure", pattern |-> "\\bcat\\s+.*\\.pem",
     re |-> <<WB>> \o Lits(<<"c","a","t">>) \o <<SpPlus>> \o <<DotStar>> \o Lits(<<".","p","e","m">>)],
    [category |-> "credential_exposure", pattern |-> "\\bcat\\s+.*\\.key",
     re |-> <<WB>> \o Lits(<<"c","a","t">>) \o <<SpPlus>> \o <<DotStar>> \o Lits(<<".","k","e","y">>)],
    [category |-> "credential_exposure", pattern |-> "\\bcat\\s+.*password",
     re |-> <<WB>> \o Lits(<<"c","a","t">>) \o <<SpPlus>> \o <<DotStar>> \o Lits(<<"p","a","s","s","w","o","r","d">>)]
  >>

critical_path_list ==
  << [text |-> "/", chars |-> <<"/">>],
    [text |-> "/bin", chars |-> <<"/","b","i","n">>],
    [text |-> "/sbin", chars |-> <<"/","s","b","i","n">>],
    [text |-> "/usr", chars |-> <<"/","u","s","r">>],
    [text |-> "/etc", chars |-> <<"/","e","t","c">>],
    [text |-> "/boot", chars |-> <<"/","b","o","o","t">>],
    [text |-> "/sys", chars |-> <<"/","s","y","s">>],
    [text |-> "/proc", chars |-> <<"/","p","r","o","c">>],
    [text |-> "/dev", chars |-> <<"/","d","e","v">>],
    [text |-> "/var/log", chars |-> <<"/","v","a","r","/","l","o","g">>],
    [text |-> "/usr/bin", chars |-> <<"/","u","s","r","/","b","i","n">>],
    [text |-> "/usr/sbin", chars |-> <<"/","u","s","r","/","s","b","i","n">>],
    [text |-> "/lib", chars |-> <<"/","l","i","b">>],
    [text |-> "/lib64", chars |-> <<"/","l","i","b","6","4">>],
    [text |-> "C:\\Windows", chars |-> <<"C",":","\\","W","i","n","d","o","w","s">>],
    [text |-> "C:\\Program Files", chars |-> <<"C",":","\\","P","r","o","g","r","a","m"," ","F","i","l","e","s">>],
    [text |-> "C:\\System32", chars |-> <<"C",":","\\","S","y","s","t","e","m","3","2">>] >>

risky_flags ==
  <<
    [cmd |-> [text |-> "rm", chars |-> <<"r","m">>],
     flags |-> << [text |-> "-rf", chars |-> <<"-","r","f">>],
                  [text |-> "-r", chars |-> <<"-","r">>],
                  [text |-> "-f", chars |-> <<"-","f">>],
                  [text |-> "--recursive", chars |-> <<"-","-","r","e","c","u","r","s","i","v","e">>],
                  [text |-> "--force", chars |-> <<"-","-","f","o","r","c","e">>] >>],
    [cmd |-> [text |-> "chmod", chars |-> <<"c","h","m","o","d">>],
     flags |-> << [text |-> "777", chars |-> <<"7","7","7">>],
                  [text |-> "666", chars |-> <<"6","6","6">>],
                  [text |-> "755", chars |-> <<"7","5","5">>] >>],
    [cmd |-> [text |-> "dd", chars |-> <<"d","d">>],
     flags |-> << [text |-> "of=/dev/", chars |-> <<"o","f","=","/","d","e","v","/">>],
                  [text |-> "if=/dev/", chars |-> <<"i","f","=","/","d","e","v","/">>] >>],
    [cmd |-> [text |-> "curl", chars |-> <<"c","u","r","l">>],
     flags |-> << [text |-> "|bash", chars |-> <<"|","b","a","s","h">>],
                  [text |-> "|sh", chars |-> <<"|","s","h">>],
                  [text |-> "|python", chars |-> <<"|","p","y","t","h","o","n">>] >>],
    [cmd |-> [text |-> "wget", chars |-> <<"w","g","e","t">>],
     flags |-> << [text |-> "|bash", chars |-> <<"|","b","a","s","h">>],
                  [text |-> "|sh", chars |-> <<"|","s","h">>],
                  [text |-> "|python", chars |-> <<"|","p","y","t","h","o","n">>] >>],
    [cmd |-> [text |-> "find", chars |-> <<"f","i","n","d">>],
     flags |-> << [text |-> "-delete", chars |-> <<"-","d","e","l","e","t","e">>],
                  [text |-> "-exec rm", chars |-> <<"-","e","x","e","c"," ","r","m">>] >>]
  >>


\* SafetyChecker._load_critical_paths returns a set: the members.
system_critical_paths == Range(critical_path_list)

\* Iteration orders of that set.  Python hashes strings with a per-process
\* seed, so the order differs from one process to the next and is fixed
\* within one process; it can be any arrangement of the members.
PathOrders ==
  { order \in Seq(system_critical_paths) :
      /\ Len(order) = Cardinality(system_critical_paths)
      /\ \A i, j \in 1..Len(order) : order[i] = order[j] => i = j }

\* Every arrangement of the members of S.
RECURSIVE OrdersOf(_)
OrdersOf(S) ==
  IF S = {} THEN { << >> }
  ELSE UNION { { << p >> \o order : order \in OrdersOf(S \ {p}) } : p \in S }

\* The members of S in the order they have in `order`.
RECURSIVE Restrict(_, _)
Restrict(order, S) ==
  IF Len(order) = 0 THEN << >>
  ELSE (IF order[1] \in S THEN << order[1] >> ELSE << >>)
         \o Restrict(Tail(order), S)

(* ------------------------------ data model ----------------------------- *)

SAFE      == "safe"
CAUTIOUS  == "cautious"
DANGEROUS == "dangerous"
FORBIDDEN == "forbidden"

SafetyLevel == {SAFE, CAUTIOUS, DANGEROUS, FORBIDDEN}

\* Values of the context_used dict: str, bool, None, or key not present.
PyStr(s)  == [t |-> "str",    s |-> s,    b |-> FALSE]
PyBool(b) == [t |-> "bool",   s |-> << >>, b |-> b]
PyNone    == [t |-> "none",   s |-> << >>, b |-> FALSE]
PyAbsent  == [t |-> "absent", s |-> << >>, b |-> FALSE]

\* dict.get(key, default)
PyGet(ctx, key, default) == IF ctx[key].t = "absent" THEN default ELSE ctx[key]

\* Python truthiness
Truthy(v) ==
  CASE v.t = "str"  -> Len(v.s) > 0
    [] v.t = "bool" -> v.b
    [] OTHER        -> FALSE

\* Command(...) of models/command.py, the fields the safety engine touches.
Command(shell_command, safety_level, warnings, context_used) ==
  [shell_command |-> shell_command, safety_level |-> safety_level,
   warnings |-> warnings, context_used |-> context_used]

(* ---------------------------- the classifier --------------------------- *)
\* Elevate without the "unless already Dangerous" guard.
Elevate_Downgrades(category, max_danger) ==
  IF category = "destructive" THEN DANGEROUS
  ELSE IF category \in {"privilege_escalation", "system_modification"}
    THEN CAUTIOUS
  ELSE IF category \in {"network_dangerous", "credential_exposure"}
    THEN (IF max_danger = SAFE THEN CAUTIOUS ELSE max_danger)
  ELSE max_danger

\* Elevate with the destructive category mapped to the top tier.
Elevate_Forbids(category, max_danger) ==
  IF category = "destructive" THEN FORBIDDEN
  ELSE IF category \in {"privilege_escalation", "system_modification"}
    THEN (IF max_danger # DANGEROUS THEN CAUTIOUS ELSE max_danger)
  ELSE IF category \in {"network_dangerous", "credential_exposure"}
    THEN (IF max_danger = SAFE THEN CAUTIOUS ELSE max_danger)
  ELSE max_danger

\* Elevate with the privilege_escalation branch missing.
Elevate_SkipsPrivilege(category, max_danger) ==
  IF category = "destructive" THEN DANGEROUS
  ELSE IF category \in {"system_modification"}
    THEN (IF max_danger # DANGEROUS THEN CAUTIOUS ELSE max_danger)
  ELSE IF category \in {"network_dangerous", "credential_exposure"}
    THEN (IF max_danger = SAFE THEN CAUTIOUS ELSE max_danger)
  ELSE max_danger

\* Elevate with the last branch of the chain missing.
Elevate_IgnoresNetwork(category, max_danger) ==
  IF category = "destructive" THEN DANGEROUS
  ELSE IF category \in {"privilege_escalation", "system_modification"}
    THEN (IF max_danger # DANGEROUS THEN CAUTIOUS ELSE max_danger)
  ELSE max_danger

\* The if/elif chain of _analyze_patterns, run for one matching pattern.
Elevate(category, max_danger) ==
  IF category = "destructive" THEN DANGEROUS
  ELSE IF category \in {"privilege_escalation", "system_modification"}
    THEN (IF max_danger # DANGEROUS THEN CAUTIOUS ELSE max_danger)
  ELSE IF category \in {"network_dangerous", "credential_exposure"}
    THEN (IF max_danger = SAFE THEN CAUTIOUS ELSE max_danger)
  ELSE max_danger

\* The two nested loops of _analyze_patterns from table entry k on.
RECURSIVE AnalyzeFrom(_, _, _, _)
AnalyzeFrom(command, k, max_danger, warnings) ==
  IF k > Len(dangerous_patterns)
    THEN [level |-> max_danger, warnings |-> warnings]
    ELSE
      LET p == dangerous_patterns[k] IN
      IF re_search(p.re, command)
        THEN AnalyzeFrom(command, k + 1, Elevate(p.category, max_danger),
               Append(warnings,
                 "Detected " \o p.category \o " pattern: " \o p.pattern))
        ELSE AnalyzeFrom(command, k + 1, max_danger, warnings)

analyze_patterns(command) == AnalyzeFrom(command, 1, SAFE, << >>)

\* _check_critical_paths, iterating the set in the order `order`.
RECURSIVE CriticalFrom(_, _, _)
CriticalFrom(command, order, k) ==
  IF k > Len(order) THEN << >>
  ELSE
    (IF Contains(order[k].chars, command)
       THEN << "Command targets critical system path: " \o order[k].text >>
       ELSE << >>)
    \o CriticalFrom(command, order, k + 1)

check_critical_paths(command, order) == CriticalFrom(command, order, 1)

\* The members of the set that line 136 finds in the command line.
MatchedPaths(command) ==
  { p \in system_critical_paths : Contains(p.chars, command) }

\* A process shows its iteration order only through the paths a call
\* matches.  `observed` is the order of the paths matched so far; a call
\* that matches `matched` shows where those stand: any arrangement of the
\* paths seen by then that keeps the order already shown.
Extensions(observed, matched) ==
  { order \in OrdersOf(Range(observed) \cup matched) :
      Restrict(order, Range(observed)) = observed }

\* The inner loop leaving at the first flag it finds.
RECURSIVE FlagsFrom_FirstOnly(_, _, _, _)
FlagsFrom_FirstOnly(command, cmd, flags, k) ==
  IF k > Len(flags) THEN << >>
  ELSE IF Contains(flags[k].chars, command)
    THEN << "Risky flag detected: " \o cmd.text \o " " \o flags[k].text >>
    ELSE FlagsFrom_FirstOnly(command, cmd, flags, k + 1)

\* Inner loop of _check_risky_flags.
RECURSIVE FlagsFrom(_, _, _, _)
FlagsFrom(command, cmd, flags, k) ==
  IF k > Len(flags) THEN << >>
  ELSE
    (IF Contains(flags[k].chars, command)
       THEN << "Risky flag detected: " \o cmd.text \o " " \o flags[k].text >>
       ELSE << >>)
    \o FlagsFrom(command, cmd, flags, k + 1)
\* The outer loop without its `if cmd in command` guard.
RiskyCmdPresent_Always(cmd, command) == TRUE

\* Guard of the outer loop of _check_risky_flags.
RiskyCmdPresent(cmd, command) == Contains(cmd.chars, command)

\* Outer loop of _check_risky_flags.
RECURSIVE RiskyFrom(_, _)
RiskyFrom(command, k) ==
  IF k > Len(risky_flags) THEN << >>
  ELSE
    (IF RiskyCmdPresent(risky_flags[k].cmd, command)
       THEN FlagsFrom(command, risky_flags[k].cmd, risky_flags[k].flags, 1)
       ELSE << >>)
    \o RiskyFrom(command, k + 1)

check_risky_flags(command) == RiskyFrom(command, 1)

ImportantDirs ==
  << <<"h","o","m","e">>,
     <<"d","o","c","u","m","e","n","t","s">>,
     <<"d","e","s","k","t","o","p">> >>

git_commands ==
  << [text |-> "git reset --hard",
      chars |-> <<"g","i","t"," ","r","e","s","e","t"," ","-","-","h","a","r","d">>],
     [text |-> "git clean -fd",
      chars |-> <<"g","i","t"," ","c","l","e","a","n"," ","-","f","d">>],
     [text |-> "git push --force",
      chars |-> <<"g","i","t"," ","p","u","s","h"," ","-","-","f","o","r","c","e">>] >>

RECURSIVE GitFrom(_, _)
GitFrom(command, k) ==
  IF k > Len(git_commands) THEN << >>
  ELSE
    (IF Contains(git_commands[k].chars, command)
       THEN << "Potentially destructive git command: " \o git_commands[k].text >>
       ELSE << >>)
    \o GitFrom(command, k + 1)

\* _check_context_safety.  current_dir.lower() raises AttributeError when
\* the value stored under current_directory is not a str.
check_context_safety(command) ==
  LET ctx         == command.context_used
      lowered     == Lower(command.shell_command)
      rootWarn    == IF PyGet(ctx, "user", PyNone) = PyStr(<<"r","o","o","t">>)
                       THEN << "Running as root user - extra caution advised" >>
                       ELSE << >>
      current_dir == PyGet(ctx, "current_directory", PyStr(<< >>))
      dirWarn     == IF /\ \E i \in 1..Len(ImportantDirs) :
                              Contains(ImportantDirs[i], Lower(current_dir.s))
                        /\ Contains(<<"r","m">>, lowered)
                       THEN << "Deletion command in user directory" >>
                       ELSE << >>
      gitWarn     == IF Truthy(PyGet(ctx, "git_repository", PyNone))
                       THEN GitFrom(lowered, 1)
                       ELSE << >>
  IN  IF current_dir.t # "str"
        THEN [raised |-> TRUE, warnings |-> rootWarn]
        ELSE [raised |-> FALSE, warnings |-> rootWarn \o dirWarn \o gitWarn]
\* check_command_safety with the tier raised when a context rule fires.
check_command_safety_ContextElevates(command, order) ==
  LET shell_command    == Lower(command.shell_command)
      analysis         == analyze_patterns(shell_command)
      context_result   == check_context_safety(command)
      warnings         == analysis.warnings
                            \o check_critical_paths(shell_command, order)
                            \o check_risky_flags(shell_command)
                            \o context_result.warnings
  IN  IF context_result.raised
        THEN command
        ELSE [command EXCEPT
                !.safety_level =
                   IF analysis.level = SAFE /\ Len(context_result.warnings) > 0
                     THEN CAUTIOUS ELSE analysis.level,
                !.warnings = command.warnings \o warnings]

\* check_command_safety assigning the warnings instead of extending them.
check_command_safety_Assigns(command, order) ==
  LET shell_command    == Lower(command.shell_command)
      analysis         == analyze_patterns(shell_command)
      context_result   == check_context_safety(command)
      warnings         == analysis.warnings
                            \o check_critical_paths(shell_command, order)
                            \o check_risky_flags(shell_command)
                            \o context_result.warnings
  IN  IF context_result.raised
        THEN command
        ELSE [command EXCEPT
                !.safety_level = analysis.level,
                !.warnings = warnings]

\* check_command_safety appending only the warnings the record lacks.
check_command_safety_Dedups(command, order) ==
  LET shell_command    == Lower(command.shell_command)
      analysis         == analyze_patterns(shell_command)
      context_result   == check_context_safety(command)
      warnings         == analysis.warnings
                            \o check_critical_paths(shell_command, order)
                            \o check_risky_flags(shell_command)
                            \o context_result.warnings
      IsNew(w)         == \A i \in 1..Len(command.warnings) : command.warnings[i] # w
  IN  IF context_result.raised
        THEN command
        ELSE [command EXCEPT
                !.safety_level = analysis.level,
                !.warnings = command.warnings \o SelectSeq(warnings, IsNew)]

\* check_command_safety writing the lowercased command back to the record.
check_command_safety_Lowercases(command, order) ==
  LET shell_command    == Lower(command.shell_command)
      analysis         == analyze_patterns(shell_command)
      context_result   == check_context_safety(command)
      warnings         == analysis.warnings
                            \o check_critical_paths(shell_command, order)
                            \o check_risky_flags(shell_command)
                            \o context_result.warnings
  IN  IF context_result.raised
        THEN command
        ELSE [command EXCEPT
                !.shell_command = shell_command,
                !.safety_level = analysis.level,
                !.warnings = command.warnings \o warnings]

\* check_command_safety leaving a record alone at Forbidden.
check_command_safety_KeepsForbidden(command, order) ==
  LET shell_command    == Lower(command.shell_command)
      analysis         == analyze_patterns(shell_command)
      context_result   == check_context_safety(command)
      warnings         == analysis.warnings
                            \o check_critical_paths(shell_command, order)
                            \o check_risky_flags(shell_command)
                            \o context_result.warnings
  IN  IF context_result.raised
        THEN command
        ELSE [command EXCEPT
                !.safety_level = IF command.safety_level = FORBIDDEN
                                   THEN FORBIDDEN ELSE analysis.level,
                !.warnings = command.warnings \o warnings]

\* check_command_safety keeping the higher of the producer's tier and its
\* own.
check_command_safety_NeverLowers(command, order) ==
  LET shell_command    == Lower(command.shell_command)
      analysis         == analyze_patterns(shell_command)
      context_result   == check_context_safety(command)
      warnings         == analysis.warnings
                            \o check_critical_paths(shell_command, order)
                            \o check_risky_flags(shell_command)
                            \o context_result.warnings
      rank             == [safe |-> 0, cautious |-> 1, dangerous |-> 2,
                           forbidden |-> 3]
  IN  IF context_result.raised
        THEN command
        ELSE [command EXCEPT
                !.safety_level = IF rank[command.safety_level]
                                      > rank[analysis.level]
                                   THEN command.safety_level
                                   ELSE analysis.level,
                !.warnings = command.warnings \o warnings]

\* check_command_safety: the record after the pass.  When the context
\* check raises, the exception leaves before the record is updated.
check_command_safety(command, order) ==
  LET shell_command    == Lower(command.shell_command)
      analysis         == analyze_patterns(shell_command)
      danger_level     == analysis.level
      path_warnings    == check_critical_paths(shell_command, order)
      flag_warnings    == check_risky_flags(shell_command)
      context_result   == check_context_safety(command)
      warnings         == analysis.warnings \o path_warnings \o flag_warnings
                            \o context_result.warnings
  IN  IF context_result.raised
        THEN command
        ELSE [command EXCEPT
                !.safety_level = danger_level,
                !.warnings = command.warnings \o warnings]

\* should_require_confirmation asking for every tier but Safe.
should_require_confirmation_NotSafe(command) == command.safety_level # SAFE

\* should_require_confirmation
should_require_confirmation(command) ==
  command.safety_level \in {CAUTIOUS, DANGEROUS}

\* is_command_forbidden
is_command_forbidden(command) == command.safety_level = FORBIDDEN

(* ------------------------------- inputs -------------------------------- *)

\* n spaces
Spaces(n) == [i \in 1..n |-> " "]

\* The words of a command line joined by n spaces each.
RECURSIVE Join(_, _)
Join(words, n) ==
  IF Len(words) = 0 THEN << >>
  ELSE IF Len(words) = 1 THEN words[1]
  ELSE words[1] \o Spaces(n) \o Join(Tail(words), n)

\* Command lines, word by word; the last has a vertical tab (\x0b) between
\* rm and its flags.
Cores ==
  { << <<"r","m">>, <<"-","r","f">>, <<"/">> >>,
    << <<"s","u","d","o">>, <<"c","h","m","o","d">>, <<"7","7","7">> >>,
    << <<"g","i","t">>, <<"p","u","s","h">>, <<"-","-","f","o","r","c","e">> >>,
    << <<"l","s">>, <<"-","l","a">> >>,
    << <<"c","u","r","l">>, <<"u","|","b","a","s","h">> >>,
    << <<"e","c","h","o">>, <<"p","a","s","s","w","o","r","d">> >>,
    << <<"d","i","r">>, <<"C",":","\\","W","i","n","d","o","w","s">> >>,
    << <<"r","m","","-","r","f">>, <<"/">> >> }

\* Text in front of the command line: nothing, a word character, a word.
Prefixes == { << >>, <<"x">>, <<"S","u","d","o"," ">> }

\* Text behind the command line: nothing, a redirection.
Suffixes == { << >>, <<" ",">"," ","/","e","t","c","/","p">> }

\* The shell commands the producers generate.
Commands ==
  { pre \o Join(core, n) \o suf :
      pre \in Prefixes, core \in Cores, n \in 1..MaxSpaces, suf \in Suffixes }

NoContext ==
  [user |-> PyAbsent, current_directory |-> PyAbsent, git_repository |-> PyAbsent]

\* Context mappings a direct caller hands to the classifier: {} (as the
\* repository's tests do), one key filled in, and a mapping of the shape
\* CommandGenerator.generate_command builds (current_directory a str,
\* git_repository a str or None, no user key).
Contexts ==
  { NoContext,
    [NoContext EXCEPT !.git_repository = PyStr(<<"m","y","r","e","p","o">>)],
    [NoContext EXCEPT !.user = PyStr(<<"r","o","o","t">>)],
    [NoContext EXCEPT !.current_directory = PyStr(<<"/","H","o","m","e","/","a">>),
                      !.git_repository = PyNone] }

\* What an AI response says about tier and warnings.
AIResponses ==
  { [safety_level |-> SAFE,      warnings |-> << >>],
    [safety_level |-> CAUTIOUS,  warnings |-> << >>],
    [safety_level |-> DANGEROUS, warnings |-> << "Review before running" >>],
    [safety_level |-> FORBIDDEN, warnings |-> << >>],
    [safety_level |-> SAFE,      warnings |-> << "Review before running" >>] }

\* str(e) of the exception caught by NLPEngine.generate_command.
ErrorTexts == { <<"'","s","h","e","l","l","_","c","o","m","m","a","n","d","'">> }

(* ------------------------------- state --------------------------------- *)

VARIABLES
  command,    \* the Command record in hand
  phase,      \* "none": no record yet, "context": generate_command has
              \* its context and waits for the client, "produced", "checked"
  before,     \* the record as it was when the latest pass began
  log,        \* per pass on this record, the warnings the pass appended
  gate,       \* answers of the gate predicates since the record last changed
  pathOrder,  \* the critical paths matched so far, in the order in which
              \* this process iterates system_critical_paths
  advice,     \* the latest answer of an advisory operation
  threads,    \* concurrent check_command_safety calls: position and record
  frames,     \* their local variables danger_level and warnings
  ask,        \* the ask flow of the CLI: its options and how far it got
  system,     \* the process: its user, working directory and repository
  ctxm,       \* the ContextManager: its cache and what it last returned
  multi,      \* generate_multiple_alternatives: its locals
  context     \* the local `context` of the generate_command call under way

vars ==
  << command, phase, before, log, gate, pathOrder, advice, threads, frames,
     ask, system, ctxm, multi, context >>

\* What the checker's operations leave alone.
cli == << ask, system, ctxm, multi, context >>

\* What the single-caller operations leave alone.
others == << advice, threads, frames, cli >>

NoGate == [asked |-> FALSE, confirm |-> FALSE, forbidden |-> FALSE]

NoAdvice == [kind |-> "none", input |-> << >>, output |-> << >>, text |-> ""]

ThreadIds == {1, 2}

\* A call of check_command_safety that has not been made.
NoCall ==
  [pc |-> "idle", input |-> Command(<< >>, SAFE, << >>, NoContext),
   record |-> Command(<< >>, SAFE, << >>, NoContext)]

\* The locals of a call before line 89 has run.
NoFrame == [shell_command |-> << >>, danger_level |-> SAFE, warnings |-> << >>]

\* _ask_command_async not called yet.
NoAsk ==
  [pc |-> "idle", execute |-> FALSE, dry_run |-> FALSE, no_safety |-> FALSE,
   alternatives |-> FALSE, enable_safety_checks |-> TRUE, shown |-> 0,
   prompted |-> FALSE, confirmed |-> FALSE, executed |-> FALSE,
   raised |-> "none"]

\* A process of an ordinary user in a directory outside any repository.
NoSystem ==
  [user |-> <<"a","l","i","c","e">>, current_directory |-> <<"/","s","r","v">>,
   git_repository |-> PyNone]

\* _cached_context = None
NoSystemContext == [current_directory |-> PyNone, git_repository |-> PyNone]

\* ContextManager.__init__; `actual` is what _collect_context would have
\* returned at the latest call of get_current_context.
NoContextManager ==
  [cached |-> NoSystemContext, result |-> NoSystemContext,
   actual |-> NoSystemContext]

\* generate_multiple_alternatives not called yet.
NoMulti ==
  [pc |-> "idle", count |-> 0, i |-> 0, primary |-> << >>,
   alternatives |-> << >>, skipped |-> 0, raised |-> "none"]

\* The processes: root or not, in or outside a home directory and a
\* repository.
Systems ==
  { [user |-> u, current_directory |-> d, git_repository |-> g] :
      u \in { <<"r","o","o","t">>, <<"a","l","i","c","e">> },
      d \in { <<"/","s","r","v">>, <<"/","H","o","m","e","/","a">> },
      g \in { PyNone, PyStr(<<"m","y","r","e","p","o">>) } }

\* _collect_context: os.getcwd() and the repository found from there.
collect_context(sys) ==
  [current_directory |-> PyStr(sys.current_directory),
   git_repository |-> sys.git_repository]

\* _is_cache_valid
is_cache_valid(cm) ==
  IF cm.cached = NoSystemContext THEN FALSE ELSE TRUE

\* get_current_context: the manager after the call, `result` the value
\* returned.
get_current_context(cm, sys, force_refresh) ==
  IF ~ force_refresh /\ is_cache_valid(cm)
    THEN [cm EXCEPT !.result = cm.cached, !.actual = collect_context(sys)]
    ELSE [cached |-> collect_context(sys), result |-> collect_context(sys),
          actual |-> collect_context(sys)]

\* Lines 27-35 of generate_command: the mapping built from the
\* SystemContext; it has no user key.
BuildContext(system_context) ==
  [user |-> PyAbsent,
   current_directory |-> system_context.current_directory,
   git_repository |-> system_context.git_repository]

\* CommandGenerator.__init__ (SafetyChecker.__init__ and
\* ContextManager.__init__ in it): the tables are loaded, the cache is
\* empty, no record exists yet and no path has been matched.
Init ==
  /\ command = Command(<< >>, SAFE, << >>, NoContext)
  /\ phase = "none"
  /\ before = command
  /\ log = << >>
  /\ gate = NoGate
  /\ pathOrder = << >>
  /\ advice = NoAdvice
  /\ threads = [t \in ThreadIds |-> NoCall]
  /\ frames = [t \in ThreadIds |-> NoFrame]
  /\ ask = NoAsk
  /\ system = NoSystem
  /\ ctxm = NoContextManager
  /\ multi = NoMulti
  /\ context = NoContext

\* A caller builds the record of this cycle itself; the ContextManager
\* has no part in it.
Produce(record) ==
  /\ phase = "none"
  /\ command' = record
  /\ phase' = "produced"
  /\ before' = record
  /\ log' = << >>
  /\ gate' = NoGate
  /\ UNCHANGED << pathOrder, others >>

\* generate_command lines 24-38, use_context being true: the context is
\* fetched (line 26, which fills an empty cache), the mapping of lines
\* 27-35 is built from it, and the call waits for the client's answer
\* (the await of line 38, at nlp_engine.py line 98).
FetchContext ==
  /\ phase = "none"
  /\ ctxm' = get_current_context(ctxm, system, FALSE)
  /\ context' = BuildContext(ctxm'.result)
  /\ phase' = "context"
  /\ UNCHANGED << command, before, log, gate, pathOrder, advice, threads,
                  frames, ask, system, multi >>

\* generate_command lines 38-46, the client having answered: the producer
\* stores the mapping of the call in the record, whatever the manager
\* holds by now; with use_context false nothing was fetched and the
\* mapping is the {} of line 24.
GeneratorProduce(shell_command, safety_level, warnings) ==
  /\ phase \in {"none", "context"}
  /\ command' = Command(shell_command, safety_level, warnings, context)
  /\ phase' = "produced"
  /\ before' = command'
  /\ log' = << >>
  /\ gate' = NoGate
  /\ UNCHANGED << pathOrder, others >>

\* The directories the process works in: one outside any repository and a
\* checkout below a home directory.
Directories ==
  { [current_directory |-> <<"/","s","r","v">>, git_repository |-> PyNone],
    [current_directory |-> <<"/","H","o","m","e","/","a">>,
     git_repository |-> PyStr(<<"m","y","r","e","p","o">>)] }

\* os.chdir by the caller before the query is asked, or by another task
\* while generate_command waits for the client.
ChangeDirectory ==
  \E d \in Directories :
    /\ phase \in {"none", "context"}
    /\ << d.current_directory, d.git_repository >>
           # << system.current_directory, system.git_repository >>
    /\ system' = [system EXCEPT !.current_directory = d.current_directory,
                                !.git_repository = d.git_repository]
    /\ UNCHANGED << command, phase, before, log, gate, pathOrder, advice,
                    threads, frames, ask, ctxm, multi, context >>

\* CommandGenerator._try_pattern_based_generation: a filled-in template.
PatternProduce ==
  \E c \in Commands :
    GeneratorProduce(c, SAFE, << >>)

\* NLPEngine.generate_command, the response parsed: tier and warnings are
\* whatever the response says.
AIProduce ==
  \E c \in Commands, r \in AIResponses :
    GeneratorProduce(c, r.safety_level, r.warnings)

\* NLPEngine.generate_command, the except branch.
AIFallback ==
  \E e \in ErrorTexts :
    GeneratorProduce(
      <<"e","c","h","o"," ","'","E","r","r","o","r"," ","p","r","o","c","e","s",
        "s","i","n","g"," ","q","u","e","r","y",":"," ">> \o e \o <<"'">>,
      SAFE, << "Command generation failed" >>)

\* The command lines a direct caller passes, single-spaced.
DirectCommands == { Join(core, 1) : core \in Cores }

\* A caller of the library hands the classifier a record it built with a
\* context mapping of its own.
CallerProduce ==
  \E c \in DirectCommands, ctx \in Contexts :
    /\ phase = "none"
    /\ command' = Command(c, SAFE, << >>, ctx)
    /\ phase' = "produced"
    /\ before' = command'
    /\ log' = << >>
    /\ gate' = NoGate
    /\ UNCHANGED << pathOrder, others >>

\* One call of SafetyChecker.check_command_safety on the record in hand.
CheckCommandSafety ==
  /\ phase \in {"produced", "checked"}
  /\ Len(log) < MaxPasses
  /\ ~ check_context_safety(command).raised
  /\ \E order \in Extensions(pathOrder,
                              MatchedPaths(Lower(command.shell_command))) :
       /\ pathOrder' = order
       /\ command' = check_command_safety(command, order)
  /\ log' = Append(log, SubSeq(command'.warnings, Len(command.warnings) + 1,
                               Len(command'.warnings)))
  /\ before' = command
  /\ phase' = "checked"
  /\ gate' = NoGate
  /\ UNCHANGED others

\* The caller consults should_require_confirmation and is_command_forbidden.
Gate ==
  /\ phase \in {"produced", "checked"}
  /\ ~ gate.asked
  /\ gate' = [asked |-> TRUE,
              confirm |-> should_require_confirmation(command),
              forbidden |-> is_command_forbidden(command)]
  /\ UNCHANGED << command, phase, before, log, pathOrder, others >>

Next ==
  \/ ChangeDirectory
  \/ FetchContext
  \/ PatternProduce
  \/ AIProduce
  \/ AIFallback
  \/ CallerProduce
  \/ CheckCommandSafety
  \/ Gate

Spec == Init /\ [][Next]_vars

(* ------------------- direct callers, any context mapping --------------- *)

\* Context mappings whose values are strings or booleans, any key missing.
AnyContexts ==
  { [user |-> u, current_directory |-> d, git_repository |-> g] :
      u \in { PyAbsent, PyStr(<<"r","o","o","t">>), PyBool(TRUE) },
      d \in { PyAbsent, PyStr(<<"/","H","o","m","e","/","a">>), PyBool(TRUE) },
      g \in { PyAbsent, PyStr(<<"m","y","r","e","p","o">>), PyBool(FALSE) } }

\* A command line in which four critical paths occur.
NestedPathCommand == <<"l","s"," ","/","u","s","r","/","b","i","n","/","x">>

\* A caller of the library builds the record itself, as the tests do.
DirectProduce ==
  \E c \in DirectCommands \cup { NestedPathCommand }, ctx \in AnyContexts :
    Produce(Command(c, SAFE, << >>, ctx))

\* check_command_safety leaving by the AttributeError of line 164: lines
\* 107-108 are not reached and the record stays as it was.
CheckCommandSafetyRaises ==
  /\ phase \in {"produced", "checked"}
  /\ check_context_safety(command).raised
  /\ phase' = "raised"
  /\ before' = command
  /\ gate' = NoGate
  /\ UNCHANGED << command, log, pathOrder, others >>

NextAnyContext ==
  \/ DirectProduce
  \/ CheckCommandSafety
  \/ CheckCommandSafetyRaises
  \/ Gate

SpecAnyContext == Init /\ [][NextAnyContext]_vars

(* ------------------------- advisory operations ------------------------- *)

\* get_safety_recommendation; the non-ASCII characters that lead each text
\* in the source file are written as their code points.
get_safety_recommendation(cmd) ==
  IF cmd.safety_level = SAFE
    THEN "<U+00E2 U+0153 U+2026> Command appears safe to execute"
  ELSE IF cmd.safety_level = CAUTIOUS
    THEN "<U+00E2 U+0161 U+00A0 U+00EF U+00B8>  Command requires caution"
           \o " - please review before executing"
  ELSE IF cmd.safety_level = DANGEROUS
    THEN "<U+00F0 U+0178 U+0161 U+00A8> DANGEROUS command detected - are you absolutely sure?"
  ELSE "<U+00E2 U+0152> Command is forbidden and will not be executed"

\* s[i:].startswith(pre), i counted from 1
StartsWithAt(s, i, pre) ==
  /\ i + Len(pre) - 1 <= Len(s)
  /\ \A j \in 1..Len(pre) : s[i + j - 1] = pre[j]

\* The position after the run of whitespace that starts at i.
RECURSIVE SkipSpaces(_, _)
SkipSpaces(s, i) ==
  IF i <= Len(s) /\ IsSpace(s[i]) THEN SkipSpaces(s, i + 1) ELSE i

\* re.sub(r'\|\s*(bash|sh|python)', '', s) from position i on: leftmost
\* matches, the alternatives tried in the order written, the scan resumed
\* behind each match.
RECURSIVE SubPipeFrom(_, _)
SubPipeFrom(s, i) ==
  IF i > Len(s) THEN << >>
  ELSE IF s[i] # "|" THEN << s[i] >> \o SubPipeFrom(s, i + 1)
  ELSE LET j == SkipSpaces(s, i + 1) IN
       IF StartsWithAt(s, j, <<"b","a","s","h">>)
         THEN SubPipeFrom(s, j + 4)
       ELSE IF StartsWithAt(s, j, <<"s","h">>)
         THEN SubPipeFrom(s, j + 2)
       ELSE IF StartsWithAt(s, j, <<"p","y","t","h","o","n">>)
         THEN SubPipeFrom(s, j + 6)
       ELSE << s[i] >> \o SubPipeFrom(s, i + 1)

\* str.replace(old, new) from position i on, for a non-empty old.
RECURSIVE ReplaceFrom(_, _, _, _)
ReplaceFrom(s, old, new, i) ==
  IF i > Len(s) THEN << >>
  ELSE IF StartsWithAt(s, i, old)
    THEN new \o ReplaceFrom(s, old, new, i + Len(old))
  ELSE << s[i] >> \o ReplaceFrom(s, old, new, i + 1)

Replace(s, old, new) == ReplaceFrom(s, old, new, 1)

\* str.lstrip() and str.strip()
RECURSIVE LStrip(_)
LStrip(s) ==
  IF Len(s) > 0 /\ IsSpace(s[1]) THEN LStrip(Tail(s)) ELSE s

RECURSIVE Strip(_)
Strip(s) ==
  IF Len(s) > 0 /\ IsSpace(s[Len(s)])
    THEN Strip(SubSeq(s, 1, Len(s) - 1))
  ELSE LStrip(s)

\* Line 205: the force flags are touched only when this holds.
ForceFlagContext(s) ==
  /\ Contains(<<"r","m">>, s)
  /\ \E p \in system_critical_paths : Contains(p.chars, s)

\* Line 206: .replace("-rf", "-r").replace("-f", "")
DropForceFlags(s) ==
  Replace(Replace(s, <<"-","r","f">>, <<"-","r">>), <<"-","f">>, << >>)

\* sanitize_command
sanitize_command(s) ==
  LET piped == SubPipeFrom(s, 1) IN
  Strip(IF ForceFlagContext(piped) THEN DropForceFlags(piped) ELSE piped)

NoSaferAlternative ==
  <<"#"," ","N","o"," ","s","a","f","e","r"," ","a","l","t","e","r","n","a",
    "t","i","v","e"," ","a","v","a","i","l","a","b","l","e"," ","-"," ","m",
    "a","n","u","a","l"," ","r","e","v","i","e","w"," ","r","e","q","u","i",
    "r","e","d">>

ReviewSuffix ==
  <<" ",">"," ","/","t","m","p","/","s","c","r","i","p","t",".","s","h"," ",
    "&","&"," ","c","a","t"," ","/","t","m","p","/","s","c","r","i","p","t",
    ".","s","h"," "," ","#"," ","R","e","v","i","e","w"," ","b","e","f","o",
    "r","e",":"," ","b","a","s","h"," ","/","t","m","p","/","s","c","r","i",
    "p","t",".","s","h">>

\* str.split("|")[0]
RECURSIVE BeforePipe(_)
BeforePipe(s) ==
  IF Len(s) = 0 \/ s[1] = "|" THEN << >>
  ELSE << s[1] >> \o BeforePipe(Tail(s))

\* get_safer_alternative
get_safer_alternative(cmd) ==
  LET shell_cmd == Lower(cmd.shell_command) IN
  IF Contains(<<"r","m"," ","-","r","f">>, shell_cmd)
    THEN Replace(shell_cmd, <<"r","m"," ","-","r","f">>,
                            <<"r","m"," ","-","r","i">>)
  ELSE IF Contains(<<"c","h","m","o","d"," ","7","7","7">>, shell_cmd)
    THEN Replace(shell_cmd, <<"c","h","m","o","d"," ","7","7","7">>,
                            <<"c","h","m","o","d"," ","7","5","5">>)
  ELSE IF \/ Contains(<<"|","b","a","s","h">>, shell_cmd)
          \/ Contains(<<"|","s","h">>, shell_cmd)
    THEN BeforePipe(shell_cmd) \o ReviewSuffix
  ELSE NoSaferAlternative

\* The command lines the advisory operations are asked about.
AdvisoryCommands ==
  { <<"r","m"," ","-","r","f"," ","/">>,
    <<"r","m"," ","-","-","f","o","r","c","e"," ","/","t","m","p","/","x">>,
    <<"r","m"," ","-","f"," ","/","m","y","-","f","i","l","e">>,
    <<"c","u","r","l"," ","u"," ","|"," ","b","a","s","h">>,
    <<"c","u","r","l"," ","u","|","s","h">>,
    <<"c","h","m","o","d"," ","7","7","7"," ","f">>,
    <<"l","s"," ","-","l","a">>,
    <<"R","M"," ","-","R","F"," ","x",";"," ","c","h","m","o","d"," ","7","7","7"," ","y">>,
    <<"a"," ","|","|","s","h","b","a","s","h">>,
    <<" ","r","m"," ","-","f"," ","C",":","\\","W","i","n","d","o","w","s"," ">>,
    <<"r","m"," ","-","f"," ","t","e","m","p",".","t","x","t">>,
    <<"","r","m","","-","f","","x","">>,
    <<"c","u","r","l"," ","u"," ","|","","s","h">> }

\* A record whose tier the producer chose; no pass has run yet.
AdvisoryProduce ==
  \E c \in AdvisoryCommands, level \in SafetyLevel :
    Produce(Command(c, level, << >>, NoContext))

\* main.py line 87 and the like: the text is shown, nothing is stored.
GetSafetyRecommendation ==
  /\ phase \in {"produced", "checked"}
  /\ advice' = [kind |-> "recommendation", input |-> command.shell_command,
                output |-> << >>, text |-> get_safety_recommendation(command)]
  /\ UNCHANGED << command, phase, before, log, gate, pathOrder, threads, frames, cli >>

SanitizeCommand ==
  /\ phase \in {"produced", "checked"}
  /\ advice' = [kind |-> "sanitize", input |-> command.shell_command,
                output |-> sanitize_command(command.shell_command),
                text |-> ""]
  /\ UNCHANGED << command, phase, before, log, gate, pathOrder, threads, frames, cli >>

\* The variant of the advisory call that stores the alternative it found.
GetSaferAlternative_Applies ==
  /\ phase \in {"produced", "checked"}
  /\ advice' = [kind |-> "alternative", input |-> command.shell_command,
                output |-> get_safer_alternative(command), text |-> ""]
  /\ command' = [command EXCEPT !.shell_command = advice'.output]
  /\ UNCHANGED << phase, before, log, gate, pathOrder, threads, frames, cli >>

GetSaferAlternative ==
  /\ phase \in {"produced", "checked"}
  /\ advice' = [kind |-> "alternative", input |-> command.shell_command,
                output |-> get_safer_alternative(command), text |-> ""]
  /\ UNCHANGED << command, phase, before, log, gate, pathOrder, threads, frames, cli >>

NextAdvisory ==
  \/ AdvisoryProduce
  \/ CheckCommandSafety
  \/ Gate
  \/ GetSafetyRecommendation
  \/ SanitizeCommand
  \/ GetSaferAlternative

SpecAdvisory == Init /\ [][NextAdvisory]_vars

(* ---------------- concurrent calls on one SafetyChecker ---------------- *)

\* The records the threads classify: fresh ones and one that a producer
\* already gave a tier and a warning.
ConcurrentRecords ==
  { Command(<<"r","m"," ","-","r","f"," ","/">>, SAFE, << >>, NoContext),
    Command(<<"l","s"," ","-","l","a">>, SAFE, << >>, NoContext),
    Command(<<"g","i","t"," ","p","u","s","h"," ","-","-","f","o","r","c","e">>,
            SAFE, << >>,
            [NoContext EXCEPT !.git_repository = PyStr(<<"m","y","r","e","p","o">>)]),
    Command(<<"l","s"," ",">"," ","/","e","t","c","/","p">>, SAFE, << >>,
            [NoContext EXCEPT !.user = PyStr(<<"r","o","o","t">>)]),
    Command(<<"S","u","d","o"," ","c","h","m","o","d"," ","7","7","7">>,
            DANGEROUS, << "Review before running" >>, NoContext),
    Command(<<"c","u","r","l"," ","u","|","b","a","s","h">>, SAFE, << >>,
            [NoContext EXCEPT
               !.current_directory = PyStr(<<"/","H","o","m","e","/","a">>),
               !.git_repository = PyNone]) }

\* Every call keeping its locals in one place on the checker.
FrameOf_Shared(t) == 1

\* shell_command, danger_level and warnings are locals of the call: each
\* call has a frame of its own.
FrameOf(t) == t

\* The single-caller state, which the threads leave alone.
single == << command, phase, before, log, gate, advice, cli >>

\* Thread t moved on to position `to`.
At(t, to) == [threads EXCEPT ![t].pc = to]

\* The frame of thread t's call replaced by `frame`.
SetFrame(t, frame) == [frames EXCEPT ![FrameOf(t)] = frame]

\* A thread calls check_command_safety with a record of its own.
Call(t) ==
  \E record \in ConcurrentRecords :
    /\ threads[t].pc = "idle"
    /\ threads' = [threads EXCEPT
                     ![t] = [pc |-> "lower", input |-> record, record |-> record]]
    /\ UNCHANGED << single, frames, pathOrder >>

\* Line 89
LowerStep(t) ==
  /\ threads[t].pc = "lower"
  /\ threads' = At(t, "patterns")
  /\ frames' = SetFrame(t, [frames[FrameOf(t)] EXCEPT
                 !.shell_command = Lower(threads[t].record.shell_command)])
  /\ UNCHANGED << single, pathOrder >>

\* Line 92
PatternsStep(t) ==
  /\ threads[t].pc = "patterns"
  /\ threads' = At(t, "paths")
  /\ LET analysis == analyze_patterns(frames[FrameOf(t)].shell_command) IN
     frames' = SetFrame(t, [frames[FrameOf(t)] EXCEPT
                 !.danger_level = analysis.level,
                 !.warnings = analysis.warnings])
  /\ UNCHANGED << single, pathOrder >>

\* Lines 95-96
PathsStep(t) ==
  /\ threads[t].pc = "paths"
  /\ threads' = At(t, "flags")
  /\ \E order \in Extensions(pathOrder,
                   MatchedPaths(frames[FrameOf(t)].shell_command)) :
       /\ pathOrder' = order
       /\ frames' = SetFrame(t, [frames[FrameOf(t)] EXCEPT
                      !.warnings = @ \o check_critical_paths(
                                          frames[FrameOf(t)].shell_command,
                                          order)])
  /\ UNCHANGED single

\* Lines 99-100
FlagsStep(t) ==
  /\ threads[t].pc = "flags"
  /\ threads' = At(t, "context")
  /\ frames' = SetFrame(t, [frames[FrameOf(t)] EXCEPT
                 !.warnings = @ \o check_risky_flags(
                                     frames[FrameOf(t)].shell_command)])
  /\ UNCHANGED << single, pathOrder >>

\* Lines 103-104; the AttributeError of line 164 ends the call.
ContextStep(t) ==
  /\ threads[t].pc = "context"
  /\ LET context_result == check_context_safety(threads[t].record) IN
     IF context_result.raised
       THEN /\ threads' = At(t, "raised")
            /\ UNCHANGED frames
       ELSE /\ threads' = At(t, "level")
            /\ frames' = SetFrame(t, [frames[FrameOf(t)] EXCEPT
                           !.warnings = @ \o context_result.warnings])
  /\ UNCHANGED << single, pathOrder >>

\* Line 107
LevelStep(t) ==
  /\ threads[t].pc = "level"
  /\ threads' = [threads EXCEPT
                   ![t].pc = "extend",
                   ![t].record.safety_level = frames[FrameOf(t)].danger_level]
  /\ UNCHANGED << single, frames, pathOrder >>

\* Lines 108-110
ExtendStep(t) ==
  /\ threads[t].pc = "extend"
  /\ threads' = [threads EXCEPT
                   ![t].pc = "done",
                   ![t].record.warnings = @ \o frames[FrameOf(t)].warnings]
  /\ UNCHANGED << single, frames, pathOrder >>

NextConcurrent ==
  \E t \in ThreadIds :
    \/ Call(t)
    \/ LowerStep(t)
    \/ PatternsStep(t)
    \/ PathsStep(t)
    \/ FlagsStep(t)
    \/ ContextStep(t)
    \/ LevelStep(t)
    \/ ExtendStep(t)

SpecConcurrent == Init /\ [][NextConcurrent]_vars

(* ------------------ CommandGenerator.generate_command ------------------ *)

\* Line 49: the pass over the record that line 41 or line 45 produced.
GenerateSafetyCheck ==
  /\ phase = "produced"
  /\ CheckCommandSafety

\* The variant with a return in front of the safety check.
GenerateReturn_Unchecked ==
  /\ phase \in {"produced", "checked"}
  /\ phase' = "returned"
  /\ UNCHANGED << command, before, log, gate, pathOrder, others >>

\* Line 51: the record goes to the caller.
GenerateReturn ==
  /\ phase = "checked"
  /\ phase' = "returned"
  /\ UNCHANGED << command, before, log, gate, pathOrder, others >>

NextGenerate ==
  \/ ChangeDirectory
  \/ FetchContext
  \/ PatternProduce
  \/ AIProduce
  \/ AIFallback
  \/ GenerateSafetyCheck
  \/ GenerateReturn

SpecGenerate == Init /\ [][NextGenerate]_vars

(* ------------------- the context of generate_command ------------------- *)

\* The command lines of the queries asked.
GenerateCommands ==
  { <<"l","s"," ","-","l","a">>, <<"r","m"," ","-","r","f"," ","/">>,
    <<"g","i","t"," ","p","u","s","h"," ","-","-","f","o","r","c","e">> }

\* The process changes user, directory or repository between two calls.
Environment ==
  \E sys \in Systems :
    /\ phase \in {"none", "context"}
    /\ sys # system
    /\ system' = sys
    /\ UNCHANGED << command, phase, before, log, gate, pathOrder, advice,
                    threads, frames, ask, ctxm, multi, context >>

\* A call of ContextManager.get_current_context by another caller.
GetCurrentContext ==
  \E force_refresh \in BOOLEAN :
    /\ phase \in {"none", "context"}
    /\ ctxm' = get_current_context(ctxm, system, force_refresh)
    /\ UNCHANGED << command, phase, before, log, gate, pathOrder, advice,
                    threads, frames, ask, system, multi, context >>

\* generate_command lines 38-46: the producer (pattern template or AI
\* engine) stores the mapping of the call in the record.
GenerateWithContext ==
  \E c \in GenerateCommands,
     r \in AIResponses \cup { [safety_level |-> SAFE, warnings |-> << >>] } :
    GeneratorProduce(c, r.safety_level, r.warnings)

NextContext ==
  \/ Environment
  \/ GetCurrentContext
  \/ FetchContext
  \/ GenerateWithContext
  \/ GenerateSafetyCheck
  \/ GenerateReturn

SpecContext == Init /\ [][NextContext]_vars

(* --------------- generate_command called by another method ------------- *)

\* Command lines that the classifier puts at Safe and at Dangerous.
GateCommands ==
  { <<"l","s"," ","-","l","a">>,
    <<"r","m"," ","-","r","f"," ","/">> }

\* What the producer of such a command line says about it: a template or
\* an AI response that calls it safe, and an AI response that calls it
\* forbidden and warns.
GateResponses ==
  { [safety_level |-> SAFE,      warnings |-> << >>],
    [safety_level |-> FORBIDDEN, warnings |-> << "Review before running" >>] }

\* What arrives in the frame of generate_command from one of its calls:
\* an error, the cancellation of the task at an await, the interrupt of
\* the user.
Raisable == {"RuntimeError", "CancelledError", "KeyboardInterrupt"}

\* isinstance(e, Exception), the test of an `except Exception` clause:
\* CancelledError and KeyboardInterrupt derive from BaseException alone.
IsException(e) == e \in {"RuntimeError"}

\* A generate_command call is under way for the ask flow (main.py line
\* 75) or for generate_multiple_alternatives (lines 184 and 196).
Generating == ask.pc = "generate" \/ multi.pc \in {"primary", "alternative"}

\* Lines 24-38 of that call; use_context is left at its default.
CallFetchContext ==
  /\ Generating
  /\ FetchContext

\* Lines 38-46 of that call: the template or the AI engine answers.
CallProduce ==
  \E c \in GateCommands, r \in GateResponses :
    /\ Generating
    /\ phase = "context"
    /\ GeneratorProduce(c, r.safety_level, r.warnings)

\* Lines 38-46 of that call, the AI engine answering with its fallback.
CallFallback ==
  /\ Generating
  /\ phase = "context"
  /\ AIFallback

\* Line 49 of that call.
CallSafetyCheck ==
  /\ Generating
  /\ GenerateSafetyCheck

\* Line 51 of that call.
CallReturn ==
  /\ Generating
  /\ GenerateReturn

\* generate_command has no handler of its own: what line 26 raises, or
\* what arrives at the awaits of lines 38 and 45 and the engine does not
\* catch, leaves the call and reaches the await of the caller.
CallRaises ==
  \E e \in Raisable :
    /\ Generating
    /\ phase \in {"none", "context"}
    /\ phase' = "raised"
    /\ IF multi.pc \in {"primary", "alternative"}
         THEN /\ multi' = [multi EXCEPT !.raised = e]
              /\ UNCHANGED ask
         ELSE /\ ask' = [ask EXCEPT !.raised = e]
              /\ UNCHANGED multi
    /\ UNCHANGED << command, before, log, gate, pathOrder, advice, threads,
                    frames, system, ctxm, context >>

(* ------------------- generate_multiple_alternatives -------------------- *)

\* Lines 187-191: the rewordings of the query.
variations ==
  << "Alternative way to: ", "Another method to: ", "Different approach for: " >>

\* len(seq[:stop]) for a sequence of the given length.
SliceLen(length, stop) ==
  IF stop >= 0
    THEN (IF stop < length THEN stop ELSE length)
    ELSE (IF length + stop > 0 THEN length + stop ELSE 0)

\* Lines 178-184: the locals of a call that has its empty list and waits
\* for the primary generate_command.
MultiCalled(count) == [NoMulti EXCEPT !.pc = "primary", !.count = count]

\* generate_multiple_alternatives(query, count) is called.
MultiCall ==
  \E count \in 0..MaxCount :
    /\ multi.pc = "idle"
    /\ ask.pc = "idle"
    /\ phase = "none"
    /\ multi' = MultiCalled(count)
    /\ UNCHANGED << command, phase, before, log, gate, pathOrder, advice,
                    threads, frames, ask, system, ctxm, context >>

\* Lines 184-185: the primary command has come back and opens the list.
MultiPrimary ==
  /\ multi.pc = "primary"
  /\ phase = "returned"
  /\ multi' = [multi EXCEPT !.pc = "loop", !.primary = command,
                            !.alternatives = << command >>]
  /\ phase' = "none"
  /\ context' = NoContext
  /\ UNCHANGED << command, before, log, gate, pathOrder, advice, threads,
                  frames, ask, system, ctxm >>

\* Line 184 raising: no handler surrounds it, the exception leaves
\* generate_multiple_alternatives.
MultiPrimaryFails ==
  /\ multi.pc = "primary"
  /\ phase = "raised"
  /\ multi' = [multi EXCEPT !.pc = "raised"]
  /\ phase' = "none"
  /\ context' = NoContext
  /\ UNCHANGED << command, before, log, gate, pathOrder, advice, threads,
                  frames, ask, system, ctxm >>

\* Lines 194-196: the loop takes the next rewording and waits for its
\* generate_command.
MultiAlternativeCall ==
  /\ multi.pc = "loop"
  /\ phase = "none"
  /\ multi.i < SliceLen(Len(variations), multi.count - 1)
  /\ multi' = [multi EXCEPT !.pc = "alternative"]
  /\ UNCHANGED << command, phase, before, log, gate, pathOrder, advice,
                  threads, frames, ask, system, ctxm, context >>

\* Lines 196-201: the rewording gave a command, kept if its command line
\* differs from the primary's; the loop is left once count are collected.
MultiAlternative ==
  LET alt_command == command
      alternatives ==
         IF alt_command.shell_command # multi.primary.shell_command
           THEN Append(multi.alternatives, alt_command)
           ELSE multi.alternatives
  IN
    /\ multi.pc = "alternative"
    /\ phase = "returned"
    /\ multi' = [multi EXCEPT
                   !.i = @ + 1,
                   !.alternatives = alternatives,
                   !.pc = IF Len(alternatives) >= multi.count
                            THEN "returned" ELSE "loop"]
    /\ phase' = "none"
    /\ context' = NoContext
    /\ UNCHANGED << command, before, log, gate, pathOrder, advice, threads,
                    frames, ask, system, ctxm >>

\* The handler of line 202 narrowed so that no error of a rewording is
\* caught.
MultiAlternativeFails_Reraises ==
  /\ multi.pc = "alternative"
  /\ phase = "raised"
  /\ multi' = [multi EXCEPT !.pc = "raised"]
  /\ phase' = "none"
  /\ context' = NoContext
  /\ UNCHANGED << command, before, log, gate, pathOrder, advice, threads,
                  frames, ask, system, ctxm >>

\* Lines 202-203: generate_command raised for this rewording.  `except
\* Exception` catches an error and the loop goes on with the next
\* rewording; a CancelledError or a KeyboardInterrupt is not caught and
\* leaves generate_multiple_alternatives.
MultiAlternativeFails ==
  /\ multi.pc = "alternative"
  /\ phase = "raised"
  /\ multi' = IF IsException(multi.raised)
                THEN [multi EXCEPT !.pc = "loop", !.i = @ + 1,
                                   !.skipped = @ + 1, !.raised = "none"]
                ELSE [multi EXCEPT !.pc = "raised"]
  /\ phase' = "none"
  /\ context' = NoContext
  /\ UNCHANGED << command, before, log, gate, pathOrder, advice, threads,
                  frames, ask, system, ctxm >>

\* Line 205, after the last rewording.
MultiReturn ==
  /\ multi.pc = "loop"
  /\ multi.i >= SliceLen(Len(variations), multi.count - 1)
  /\ multi' = [multi EXCEPT !.pc = "returned"]
  /\ UNCHANGED << command, phase, before, log, gate, pathOrder, advice,
                  threads, frames, ask, system, ctxm, context >>

NextMulti ==
  \/ ChangeDirectory
  \/ MultiCall
  \/ CallFetchContext
  \/ CallProduce
  \/ CallFallback
  \/ CallSafetyCheck
  \/ CallReturn
  \/ CallRaises
  \/ MultiPrimary
  \/ MultiPrimaryFails
  \/ MultiAlternativeCall
  \/ MultiAlternative
  \/ MultiAlternativeFails
  \/ MultiReturn

SpecMulti == Init /\ [][NextMulti]_vars

(* --------------------------- the ask flow ------------------------------ *)

\* Lines 46-75: the options of the call and whether an API key is
\* configured.  Without a key the flow ends at line 64; with one it waits
\* for generate_multiple_alternatives(query, count=3) (line 72) or for
\* generate_command(query) (line 75).
AskCall ==
  \E execute, dry_run, no_safety, alternatives, enable_safety_checks,
     api_key \in BOOLEAN :
    /\ ask.pc = "idle"
    /\ multi.pc = "idle"
    /\ phase = "none"
    /\ ask' = [NoAsk EXCEPT
                 !.pc = IF ~ api_key THEN "done"
                        ELSE IF alternatives THEN "alternatives"
                        ELSE "generate",
                 !.execute = execute,
                 !.dry_run = dry_run,
                 !.no_safety = no_safety,
                 !.alternatives = alternatives,
                 !.enable_safety_checks = enable_safety_checks]
    /\ multi' = IF api_key /\ alternatives THEN MultiCalled(3) ELSE multi
    /\ UNCHANGED << command, phase, before, log, gate, pathOrder, advice,
                    threads, frames, system, ctxm, context >>

\* Lines 75-82: generate_command has returned its record.
AskGenerate ==
  /\ ask.pc = "generate"
  /\ phase = "returned"
  /\ ask' = [ask EXCEPT !.pc = "safety"]
  /\ UNCHANGED << command, phase, before, log, gate, pathOrder, advice,
                  threads, frames, system, ctxm, multi, context >>

\* Lines 72-82: generate_multiple_alternatives has returned its list, the
\* flow goes on with commands[0] and shows the others.
AskAlternatives ==
  /\ ask.pc = "alternatives"
  /\ multi.pc = "returned"
  /\ command' = multi.alternatives[1]
  /\ ask' = [ask EXCEPT !.pc = "safety",
                        !.shown = Len(multi.alternatives) - 1]
  /\ UNCHANGED << phase, before, log, gate, pathOrder, advice, threads,
                  frames, system, ctxm, multi, context >>

\* Lines 98-99: what the generator raised reaches the try of line 69.  An
\* error is printed and the flow ends; a CancelledError or a
\* KeyboardInterrupt leaves _ask_command_async.
AskExcept ==
  /\ \/ ask.pc = "generate" /\ phase = "raised"
     \/ ask.pc = "alternatives" /\ multi.pc = "raised"
  /\ LET e == IF ask.pc = "generate" THEN ask.raised ELSE multi.raised IN
       ask' = [ask EXCEPT !.raised = e,
                          !.pc = IF IsException(e) THEN "done" ELSE "raised"]
  /\ UNCHANGED << command, phase, before, log, gate, pathOrder, advice,
                  threads, frames, system, ctxm, multi, context >>

\* Lines 84-92: the recommendation is shown for the two upper tiers, and a
\* Forbidden record ends the flow.
AskSafetyCheck ==
  /\ ask.pc = "safety"
  /\ IF ~ ask.no_safety /\ ask.enable_safety_checks
       /\ command.safety_level \in {DANGEROUS, FORBIDDEN}
       THEN /\ advice' = [kind |-> "recommendation",
                          input |-> command.shell_command,
                          output |-> << >>,
                          text |-> get_safety_recommendation(command)]
            /\ ask' = [ask EXCEPT !.pc = IF command.safety_level = FORBIDDEN
                                           THEN "blocked" ELSE "decide"]
       ELSE /\ ask' = [ask EXCEPT !.pc = "decide"]
            /\ UNCHANGED advice
  /\ UNCHANGED << command, phase, before, log, gate, pathOrder, threads, frames, system, ctxm, multi, context >>

\* Line 95, `execute or ...`: with --execute nothing else is evaluated.
AskExecuteOption ==
  /\ ask.pc = "decide"
  /\ ask.execute
  /\ ask' = [ask EXCEPT !.pc = "execute"]
  /\ UNCHANGED << command, phase, before, log, gate, pathOrder, advice,
                  threads, frames, system, ctxm, multi, context >>

\* Line 95, `not dry_run and ...`: with --dry-run the flow ends here.
AskDryRun ==
  /\ ask.pc = "decide"
  /\ ~ ask.execute
  /\ ask.dry_run
  /\ ask' = [ask EXCEPT !.pc = "done"]
  /\ UNCHANGED << command, phase, before, log, gate, pathOrder, advice,
                  threads, frames, system, ctxm, multi, context >>

\* Line 95 calling _should_execute (lines 156-171): the user's answer to
\* Confirm.ask, or False without a prompt for a Forbidden record.
AskShouldExecute ==
  \E answer \in BOOLEAN :
    /\ ask.pc = "decide"
    /\ ~ ask.execute
    /\ ~ ask.dry_run
    /\ IF ask.no_safety \/ command.safety_level # FORBIDDEN
         THEN ask' = [ask EXCEPT !.prompted = TRUE, !.confirmed = answer,
                                 !.pc = IF answer THEN "execute" ELSE "done"]
         ELSE ask' = [ask EXCEPT !.pc = "done"]
    /\ UNCHANGED << command, phase, before, log, gate, pathOrder, advice,
                    threads, frames, system, ctxm, multi, context >>

\* Line 96, _execute_command (lines 174-208): the command line is run.
ExecuteCommand ==
  /\ ask.pc = "execute"
  /\ ask' = [ask EXCEPT !.executed = TRUE, !.pc = "done"]
  /\ UNCHANGED << command, phase, before, log, gate, pathOrder, advice,
                  threads, frames, system, ctxm, multi, context >>

NextAsk ==
  \/ ChangeDirectory
  \/ AskCall
  \/ CallFetchContext
  \/ CallProduce
  \/ CallFallback
  \/ CallSafetyCheck
  \/ CallReturn
  \/ CallRaises
  \/ MultiPrimary
  \/ MultiPrimaryFails
  \/ MultiAlternativeCall
  \/ MultiAlternative
  \/ MultiAlternativeFails
  \/ MultiReturn
  \/ AskGenerate
  \/ AskAlternatives
  \/ AskExcept
  \/ AskSafetyCheck
  \/ AskExecuteOption
  \/ AskDryRun
  \/ AskShouldExecute
  \/ ExecuteCommand

SpecAsk == Init /\ [][NextAsk]_vars

(* ----------------------- vocabulary of the claims ---------------------- *)

\* Severity order of the tiers.
LevelRank == [safe |-> 0, cautious |-> 1, dangerous |-> 2, forbidden |-> 3]

\* The command as the classifier reads it.
Lowered == Lower(command.shell_command)

\* Some regex of the category matches s.
MatchesCategory(category, s) ==
  \E k \in 1..Len(dangerous_patterns) :
    /\ dangerous_patterns[k].category = category
    /\ re_search(dangerous_patterns[k].re, s)

CautiousCategories ==
  {"privilege_escalation", "network_dangerous", "system_modification",
   "credential_exposure"}

\* No regex of any category matches s.
NoPatternMatches(s) ==
  \A k \in 1..Len(dangerous_patterns) : ~ re_search(dangerous_patterns[k].re, s)

\* Some critical path occurs in s.
TargetsCriticalPath(s) ==
  \E p \in system_critical_paths : Contains(p.chars, s)

\* Some (base command, flag) pair of the risky-flag table occurs in s.
HasRiskyPair(s) ==
  \E k \in 1..Len(risky_flags) :
    /\ Contains(risky_flags[k].cmd.chars, s)
    /\ \E j \in 1..Len(risky_flags[k].flags) :
         Contains(risky_flags[k].flags[j].chars, s)

\* sub occurs in s at the start of s or right after a non-word character.
ContainsAtWordStart(sub, s) ==
  \E i \in 0..(Len(s) - Len(sub)) :
    /\ \A j \in 1..Len(sub) : s[i + j] = sub[j]
    /\ (i = 0 \/ ~ IsWord(s[i]))

IsPrefix(a, b) == Len(a) <= Len(b) /\ \A i \in 1..Len(a) : a[i] = b[i]

Member(w, seq) == \E i \in 1..Len(seq) : seq[i] = w

RmRfRoot == <<"r","m"," ","-","r","f"," ","/">>

SudoChmod777 == <<"s","u","d","o"," ","c","h","m","o","d"," ","7","7","7">>

GitPushForce == <<"g","i","t"," ","p","u","s","h"," ","-","-","f","o","r","c","e">>

LsLa == <<"l","s"," ","-","l","a">>

\* The latest pass ran on a fresh record: tier Safe, no warnings.
FreshPass ==
  /\ phase = "checked"
  /\ Len(log) = 1
  /\ before.safety_level = SAFE
  /\ before.warnings = << >>

(* -------------------------------- claims ------------------------------- *)

\* C1: after a pass the tier is Dangerous if a destructive regex matches the
\* lowercased command, else Cautious if a regex of one of the other four
\* categories matches, else Safe; a destructive match is never downgraded.
C1_TierFollowsCategories ==
  phase = "checked" =>
    command.safety_level =
      (IF MatchesCategory("destructive", Lowered) THEN DANGEROUS
       ELSE IF \E c \in CautiousCategories : MatchesCategory(c, Lowered)
         THEN CAUTIOUS
       ELSE SAFE)

\* A command matching destructive and privilege_escalation ended Dangerous.
C1_Witness ==
  /\ phase = "checked"
  /\ MatchesCategory("destructive", Lowered)
  /\ MatchesCategory("privilege_escalation", Lowered)
  /\ command.safety_level = DANGEROUS

\* C2 (as claimed): a pass never lowers the tier the record had before it.
C2_TierNeverLowered ==
  phase = "checked" =>
    LevelRank[command.safety_level] >= LevelRank[before.safety_level]

\* C3: the tier after a pass is the result of the pattern scan alone; a
\* command that matches no regex ends Safe whatever warnings the
\* critical-path, risky-flag and context checks appended.
C3_OnlyPatternsSetTier ==
  phase = "checked" =>
    /\ command.safety_level = analyze_patterns(Lowered).level
    /\ (NoPatternMatches(Lowered) => command.safety_level = SAFE)

\* 'git push --force' in a git repository: warned about, still Safe.
C3_Witness ==
  /\ phase = "checked"
  /\ command.shell_command = GitPushForce
  /\ Truthy(command.context_used.git_repository)
  /\ Member("Potentially destructive git command: git push --force",
            log[Len(log)])
  /\ command.safety_level = SAFE

\* C4: a pass on a record that is not Forbidden never yields Forbidden.
C4_NeverForbidden ==
  (phase = "checked" /\ before.safety_level # FORBIDDEN) =>
    command.safety_level # FORBIDDEN

\* A destructive command classified from a record that was not Forbidden.
C4_Witness ==
  /\ phase = "checked"
  /\ before.safety_level # FORBIDDEN
  /\ command.safety_level = DANGEROUS

\* C5 (as claimed): every command containing 'rm -rf /' ends Dangerous.
C5_ContainsRmRfRoot ==
  (phase = "checked" /\ Contains(RmRfRoot, command.shell_command)) =>
    command.safety_level = DANGEROUS

\* C5 (amended): every command in which 'rm -rf /' stands at the start or
\* right after a non-word character ends Dangerous.
C5_RmRfRootAtWordStart ==
  (phase = "checked" /\ ContainsAtWordStart(RmRfRoot, command.shell_command)) =>
    command.safety_level = DANGEROUS

\* 'rm -rf /' behind other text and in front of more text ended Dangerous.
C5_Witness ==
  /\ phase = "checked"
  /\ ContainsAtWordStart(RmRfRoot, command.shell_command)
  /\ Len(command.shell_command) > Len(RmRfRoot)
  /\ command.shell_command[1] # "r"
  /\ command.safety_level = DANGEROUS

\* C6 (as claimed): every command containing 'sudo chmod 777' ends at
\* Cautious or higher.
C6_ContainsSudoChmod ==
  (phase = "checked" /\ Contains(SudoChmod777, command.shell_command)) =>
    LevelRank[command.safety_level] >= LevelRank[CAUTIOUS]

\* C6 (amended): every command in which 'sudo chmod 777' stands at the start
\* or right after a non-word character ends at Cautious or higher.
C6_SudoChmodAtWordStart ==
  (phase = "checked" /\ ContainsAtWordStart(SudoChmod777, command.shell_command)) =>
    LevelRank[command.safety_level] >= LevelRank[CAUTIOUS]

\* 'sudo chmod 777' with a second rule (the /etc redirection) firing.
C6_Witness ==
  /\ phase = "checked"
  /\ ContainsAtWordStart(SudoChmod777, command.shell_command)
  /\ MatchesCategory("system_modification", Lowered)
  /\ command.safety_level = CAUTIOUS

\* C7: a fresh record whose lowercased command matches no regex, contains no
\* critical path and no risky (command, flag) pair ends Safe with exactly
\* the warnings of the context rules, and with none under an empty context.
C7_CleanCommandStaysClean ==
  (/\ FreshPass
   /\ NoPatternMatches(Lowered)
   /\ ~ TargetsCriticalPath(Lowered)
   /\ ~ HasRiskyPair(Lowered)) =>
    /\ command.safety_level = SAFE
    /\ command.warnings = check_context_safety(before).warnings
    /\ (command.context_used = NoContext => command.warnings = << >>)

\* 'ls -la' with context {}: Safe, no warnings.
C7_Witness ==
  /\ FreshPass
  /\ command.shell_command = LsLa
  /\ command.context_used = NoContext
  /\ command.safety_level = SAFE
  /\ command.warnings = << >>

\* C8: the warnings a record carried before a pass are a prefix of the
\* warnings it carries after the pass.
C8_WarningsPrefixKept ==
  phase = "checked" => IsPrefix(before.warnings, command.warnings)

\* A record that came with a warning of its producer got more appended.
C8_Witness ==
  /\ phase = "checked"
  /\ Len(log) = 1
  /\ Len(before.warnings) > 0
  /\ Len(command.warnings) > Len(before.warnings)

\* C9: a second pass appends the warnings of the first pass once more.
C9_SecondPassDuplicates ==
  Len(log) >= 2 =>
    /\ log[Len(log)] = log[Len(log) - 1]
    /\ command.warnings = before.warnings \o log[Len(log) - 1]

\* Two passes, each of which appended the same non-empty warnings.
C9_Witness ==
  /\ Len(log) = 2
  /\ Len(log[1]) > 0
  /\ Len(command.warnings) = Len(before.warnings) + Len(log[1])
  /\ Len(before.warnings) >= Len(log[1])

\* C10: should_require_confirmation holds exactly for Cautious and
\* Dangerous, is_command_forbidden exactly for Forbidden, never both.
C10_GatePredicates ==
  gate.asked =>
    /\ (command.safety_level = SAFE      => ~ gate.confirm /\ ~ gate.forbidden)
    /\ (command.safety_level = CAUTIOUS  => gate.confirm /\ ~ gate.forbidden)
    /\ (command.safety_level = DANGEROUS => gate.confirm /\ ~ gate.forbidden)
    /\ (command.safety_level = FORBIDDEN => ~ gate.confirm /\ gate.forbidden)
    /\ ~ (gate.confirm /\ gate.forbidden)

\* The predicates were asked about a Forbidden record.
C10_Witness ==
  /\ gate.asked
  /\ command.safety_level = FORBIDDEN
  /\ gate.forbidden
  /\ ~ gate.confirm

\* Number of occurrences of w in seq.
Count(w, seq) == Cardinality({ i \in 1..Len(seq) : seq[i] = w })

\* The (base command, flag) pairs of the risky-flag table, by position.
RiskyPairs ==
  { <<k, j>> \in (1..Len(risky_flags)) \X (1..5) : j <= Len(risky_flags[k].flags) }

\* Both halves of the pair occur in s.
PairPresent(pair, s) ==
  /\ Contains(risky_flags[pair[1]].cmd.chars, s)
  /\ Contains(risky_flags[pair[1]].flags[pair[2]].chars, s)

\* C11 (as claimed): a pass appends exactly one critical-path warning for
\* every path of the Critical Path Set, POSIX or Windows, that occurs in
\* the command, and none for a path that does not occur.
C11_EveryCriticalPathWarned ==
  FreshPass =>
    \A p \in system_critical_paths :
      Count("Command targets critical system path: " \o p.text, log[1]) =
        (IF Contains(p.chars, command.shell_command) THEN 1 ELSE 0)

\* C12: a pass appends exactly one risky-flag warning for every pair of the
\* table whose base command and flag both occur anywhere in the lowercased
\* command, and no other risky-flag warning: the warnings of the pass are
\* those, the pattern, the critical-path and the context warnings.
C12_RiskyFlagWarnings ==
  FreshPass =>
    /\ \A pair \in RiskyPairs :
         Count("Risky flag detected: " \o risky_flags[pair[1]].cmd.text \o " "
                 \o risky_flags[pair[1]].flags[pair[2]].text, log[1]) =
           (IF PairPresent(pair, Lowered) THEN 1 ELSE 0)
    /\ Len(log[1]) =
           Cardinality({ k \in 1..Len(dangerous_patterns) :
                           re_search(dangerous_patterns[k].re, Lowered) })
         + Cardinality({ p \in system_critical_paths : Contains(p.chars, Lowered) })
         + Cardinality({ pair \in RiskyPairs : PairPresent(pair, Lowered) })
         + Len(check_context_safety(before).warnings)

\* 'rm' glued to a preceding word character still gets a warning for each
\* flag text that occurs: -rf and the -r inside it, not -f.
C12_Witness ==
  /\ FreshPass
  /\ command.shell_command[1] = "x"
  /\ Member("Risky flag detected: rm -rf", log[1])
  /\ Member("Risky flag detected: rm -r", log[1])
  /\ ~ Member("Risky flag detected: rm -f", log[1])

\* C13: a pass leaves shell_command and context_used of the record and the
\* checker's tables (their iteration order included) as they were.
C13_PassFrame ==
  [][phase' = "checked" =>
       /\ command'.shell_command = command.shell_command
       /\ command'.context_used = command.context_used
       /\ Restrict(pathOrder', Range(pathOrder)) = pathOrder]_vars

\* A pass changed tier and warnings of a record with upper-case letters in
\* its command and a non-empty context.
C13_Witness ==
  /\ phase = "checked"
  /\ command.safety_level # before.safety_level
  /\ Len(command.warnings) > Len(before.warnings)
  /\ command.shell_command = before.shell_command
  /\ Lowered # command.shell_command
  /\ command.context_used # NoContext
  /\ command.context_used = before.context_used

\* C14 (as claimed): a fresh record with the same command and context ends
\* with the same tier and the same warnings in the same order whichever
\* process (iteration order of the critical-path set) classifies it.
C14_SameInputsSameResult ==
  FreshPass =>
    \A order \in OrdersOf(MatchedPaths(Lower(before.shell_command))) :
      check_command_safety(before, order) = command

\* C15 (as claimed): check_command_safety never raises, whatever strings or
\* booleans the context maps its keys to, and a key that is missing gives
\* no context warning.
C15_NeverRaises ==
  /\ phase # "raised"
  /\ (FreshPass /\ command.context_used = NoContext) =>
       check_context_safety(before).warnings = << >>

\* C16: get_safety_recommendation, sanitize_command, get_safer_alternative
\* and the gate predicates leave the record as it was, so the gate
\* predicates answer after the call what they answered before it.
C16_AdvisoryFrame ==
  [][(advice' # advice \/ (gate' # gate /\ gate'.asked)) =>
       /\ command' = command
       /\ should_require_confirmation(command') =
            should_require_confirmation(command)
       /\ is_command_forbidden(command') = is_command_forbidden(command)]_vars

\* A classified record that was asked for an alternative, got a rewrite
\* and still holds its own command line, tier and warnings.
C16_Witness ==
  /\ phase = "checked"
  /\ gate.asked
  /\ advice.kind = "alternative"
  /\ advice.output # NoSaferAlternative
  /\ advice.input = command.shell_command
  /\ command.warnings # << >>
  /\ command = check_command_safety(before, pathOrder)

\* Deleting "-f" only where it is a whole word, from position i on.
RECURSIVE DropStandaloneForceFrom(_, _)
DropStandaloneForceFrom(s, i) ==
  IF i > Len(s) THEN << >>
  ELSE IF /\ StartsWithAt(s, i, <<"-","f">>)
          /\ (i = 1 \/ IsSpace(s[i - 1]))
          /\ (i + 2 > Len(s) \/ IsSpace(s[i + 2]))
    THEN DropStandaloneForceFrom(s, i + 2)
  ELSE << s[i] >> \o DropStandaloneForceFrom(s, i + 1)

\* C17 (as claimed): when the string has "rm" and a critical path in it,
\* sanitize_command turns every "-rf" into "-r" and deletes only the "-f"
\* that stands alone, leaving "-f" inside "--force" or a file name; when
\* it has not, no flag is changed.
C17_OnlyStandaloneForceRemoved ==
  advice.kind = "sanitize" =>
    LET piped == SubPipeFrom(advice.input, 1) IN
    advice.output =
      Strip(IF ForceFlagContext(advice.input)
              THEN DropStandaloneForceFrom(
                     Replace(piped, <<"-","r","f">>, <<"-","r">>), 1)
              ELSE piped)

\* C18 (as claimed): get_safer_alternative answers the fixed marker exactly
\* when the lowercased command has none of "rm -rf", "chmod 777", "|bash",
\* "|sh" in it, and otherwise a rewrite in which none of them is left.
C18_AlternativeRewritesAll ==
  advice.kind = "alternative" =>
    LET shell_cmd == Lower(advice.input)
        idioms == { <<"r","m"," ","-","r","f">>,
                    <<"c","h","m","o","d"," ","7","7","7">>,
                    <<"|","b","a","s","h">>, <<"|","s","h">> }
        none == \A idiom \in idioms : ~ Contains(idiom, shell_cmd)
    IN /\ (advice.output = NoSaferAlternative) <=> none
       /\ ~ none => \A idiom \in idioms : ~ Contains(idiom, advice.output)

\* C19: calls of check_command_safety that run at the same time on one
\* checker, each on a record of its own, end under every interleaving with
\* the tier and the warnings that the call alone gives its record.
C19_ConcurrentAsAlone ==
  \A t \in ThreadIds :
    threads[t].pc = "done" =>
      threads[t].record = check_command_safety(threads[t].input, pathOrder)

\* Two finished calls on different records, with different tiers and
\* different warnings.
C19_Witness ==
  /\ \A t \in ThreadIds : threads[t].pc = "done"
  /\ threads[1].input # threads[2].input
  /\ threads[1].record.safety_level # threads[2].record.safety_level
  /\ \A t \in ThreadIds :
       Len(threads[t].record.warnings) > Len(threads[t].input.warnings)
  /\ threads[1].record.warnings # threads[2].record.warnings

\* C20: a record that generate_command returns went through
\* check_command_safety exactly once since it was produced: it is the
\* result of one pass over the produced record.
C20_CheckedExactlyOnce ==
  phase = "returned" =>
    /\ Len(log) = 1
    /\ command = check_command_safety(before, pathOrder)

\* A returned record whose tier the pass changed and that got warnings.
C20_Witness ==
  /\ phase = "returned"
  /\ Len(log) = 1
  /\ log[1] # << >>
  /\ before.safety_level = FORBIDDEN
  /\ command.safety_level = DANGEROUS

\* C21 (as claimed): with the safety checks on and without --no-safety, a
\* Dangerous command is executed only after the user confirmed a prompt,
\* whatever the other options are.
C21_DangerousNeedsConfirmation ==
  (/\ ask.executed
   /\ ~ ask.no_safety
   /\ ask.enable_safety_checks
   /\ command.safety_level = DANGEROUS) => (ask.prompted /\ ask.confirmed)

\* C22: for every combination of execute, dry_run, no_safety and
\* enable_safety_checks, _execute_command is not invoked on a Forbidden
\* command: the record the ask flow is about to run or has run is never at
\* that tier.
C22_ForbiddenNeverExecuted ==
  ask.pc = "execute" \/ ask.executed => command.safety_level # FORBIDDEN

\* With --execute and --no-safety the flow ran a command line that its
\* producer had labelled Forbidden; the record that came back from
\* generate_command was Dangerous.
C22_Witness ==
  /\ ask.executed
  /\ ask.execute
  /\ ask.no_safety
  /\ ~ ask.alternatives
  /\ before.safety_level = FORBIDDEN
  /\ before.shell_command = command.shell_command
  /\ command.safety_level = DANGEROUS

\* C23 (as claimed): with --dry-run, _execute_command is never invoked,
\* whatever the other options are.
C23_DryRunNeverExecutes ==
  ask.dry_run => ~ (ask.pc = "execute" \/ ask.executed)

\* C24: the tier of a record that generate_command returns is the tier the
\* pass gives the same record labelled Safe, so records that differ only in
\* the tier their producer assigned come back with the same tier.
C24_ProducerTierIgnored ==
  phase = "returned" =>
    check_command_safety([before EXCEPT !.safety_level = SAFE],
                         pathOrder).safety_level = command.safety_level

\* A record the AI producer labelled Forbidden comes back Safe.
C24_Witness ==
  /\ phase = "returned"
  /\ before.safety_level = FORBIDDEN
  /\ command.safety_level = SAFE
  /\ Len(log) = 1

\* C25 (as claimed): a fresh record whose command line trips the risky-flag
\* table and nothing else, such as 'rm -f temp.txt', is classified
\* Cautious.
C25_RiskyFlagIsCautious ==
  (/\ FreshPass
   /\ HasRiskyPair(Lowered)
   /\ NoPatternMatches(Lowered)
   /\ ~ TargetsCriticalPath(Lowered)) => command.safety_level = CAUTIOUS

\* C26 (as claimed): a record produced through generate_command in a
\* process that runs as root has the root warning after the pass.
C26_RootWarned ==
  (phase \in {"checked", "returned"} /\ system.user = <<"r","o","o","t">>) =>
    Member("Running as root user - extra caution advised", command.warnings)

\* C27 (as claimed): the result of sanitize_command has no '|', optional
\* whitespace and 'bash', 'sh' or 'python' left in it: removing such
\* fragments from the result once more changes nothing.
C27_NoPipeToInterpreterLeft ==
  advice.kind = "sanitize" => SubPipeFrom(advice.output, 1) = advice.output

\* C29 (as claimed): what get_current_context returns is what collecting
\* the context at the time of that call gives, with or without
\* force_refresh.
C29_ContextNeverStale ==
  ctxm.result # NoSystemContext => ctxm.result = ctxm.actual

\* The list generate_multiple_alternatives returns for count >= 1: it
\* starts with the primary command, has between 1 and count elements, and
\* its later elements have a command line other than the primary's.
C28_ListShape ==
  (multi.pc = "returned" /\ multi.count >= 1) =>
    /\ Len(multi.alternatives) \in 1..multi.count
    /\ multi.alternatives[1] = multi.primary
    /\ \A k \in 2..Len(multi.alternatives) :
         multi.alternatives[k].shell_command # multi.primary.shell_command

\* C28 (as claimed): for count >= 1 the returned list has that shape, and
\* a failure while generating one alternative is skipped and does not fail
\* the call: the call ends by raising only when the generation of the
\* primary command failed.
C28_AlternativesList ==
  /\ C28_ListShape
  /\ multi.pc = "raised" => multi.alternatives = << >>

\* C28 (amended): for count >= 1 the returned list has that shape, and an
\* error (an exception of class Exception) raised while generating one
\* alternative is skipped and does not fail the call: once the primary
\* command is in the list the call ends by raising only with a
\* CancelledError or a KeyboardInterrupt, and every skipped rewording is
\* one the loop has gone past.
C28_ErrorsSkipped ==
  /\ C28_ListShape
  /\ (multi.pc = "raised" /\ multi.alternatives # << >>) =>
       multi.raised \in {"CancelledError", "KeyboardInterrupt"}
  /\ multi.skipped <= multi.i

\* A call for three commands in which the generation of one rewording
\* raised an error: it skipped that rewording, dropped none and came back
\* with the primary and one alternative.
C28_Witness ==
  /\ multi.pc = "returned"
  /\ multi.count = 3
  /\ multi.skipped = 1
  /\ multi.i = 2
  /\ Len(multi.alternatives) = 2

\* The warning _analyze_patterns appends for each table entry.
PatternWarnings ==
  { "Detected " \o dangerous_patterns[k].category \o " pattern: "
      \o dangerous_patterns[k].pattern : k \in 1..Len(dangerous_patterns) }

DestructiveWarnings ==
  { "Detected destructive pattern: " \o dangerous_patterns[k].pattern :
      k \in { j \in 1..Len(dangerous_patterns) :
                dangerous_patterns[j].category = "destructive" } }

\* C30: after the pass over a fresh record the tier is Safe exactly when
\* the pass appended no 'Detected <category> pattern' warning and Dangerous
\* exactly when it appended a 'Detected destructive pattern' warning.
C30_TierAgreesWithPatternWarnings ==
  FreshPass =>
    /\ command.safety_level = SAFE <=>
         \A i \in 1..Len(log[1]) : log[1][i] \notin PatternWarnings
    /\ command.safety_level = DANGEROUS <=>
         \E i \in 1..Len(log[1]) : log[1][i] \in DestructiveWarnings

\* A Safe record with warnings of the other kinds: a critical path and the
\* context.
C30_Witness ==
  /\ FreshPass
  /\ command.safety_level = SAFE
  /\ Len(log[1]) >= 2
  /\ Len(check_context_safety(before).warnings) > 0
  /\ TargetsCriticalPath(Lowered)

====
